---- MODULE Spec2Model ----
(***************************************************************************)
(* Model of packages/serverless/src/google-cloud-grpc.ts: the GoogleCloudGrpc *)
(* integration, which patches google-gax's GrpcClient.prototype.createStub  *)
(* so that unary methods of every created stub start a span on the scope's  *)
(* transaction and finish it on the call's 'status' event.                  *)
(*                                                                          *)
(* Strings that the code inspects (service paths) are sequences of          *)
(* one-character strings; JavaScript's undefined and null are tags.         *)
(***************************************************************************)
EXTENDS Integers, Sequences, FiniteSets, TLC

VARIABLES
    optional,        \* GoogleCloudGrpc._optional
    installs,        \* number of install() calls so far
    lastInstall,     \* the last install() call: what require did, how install ended
    createStubLayers,\* number of _wrapCreateStub layers on GrpcClient.prototype.createStub
    creates,         \* calls of GrpcClient.prototype.createStub, in call order
    stubWrappers,    \* per stub and property: the layers fill() has put on it (innermost first)
    scopeTxn,        \* client.getScope().getTransaction()
    calls,           \* invocations of stub methods, in call order
    spans,           \* spans started by transaction.startChild, in creation order
    budget,          \* how far a run is explored: operations, requests, events
    idPc,            \* position of the identifyService harness
    idPath,          \* its argument
    idResult         \* its result

vars == <<optional, installs, lastInstall, createStubLayers, creates, stubWrappers, scopeTxn,
          calls, spans, budget, idPc, idPath, idResult>>

mainVars == <<optional, installs, lastInstall, createStubLayers, creates, stubWrappers, scopeTxn,
              calls, spans, budget>>

idVars == <<idPc, idPath, idResult>>

(***************************************************************************)
(* Bounds                                                                  *)
(***************************************************************************)
MaxOps == 3
MaxRequests == 2
MaxEvents == 2
MaxPrefixLen == 2
\* The same three for the runs that follow several method calls at once
MaxCallOps == 5
MaxCallRequests == 4
MaxCallEvents == 2

(***************************************************************************)
(* Characters and strings                                                  *)
(***************************************************************************)
Str_googleapis == <<"g", "o", "o", "g", "l", "e", "a", "p", "i", "s">>
Str_com == <<"c", "o", "m">>
Str_pubsub == <<"p", "u", "b", "s", "u", "b">>
Str_localhost == <<"l", "o", "c", "a", "l", "h", "o", "s", "t">>

\* The regular expression class \w: [A-Za-z0-9_]
WordChars ==
    {"a", "b", "c", "d", "e", "f", "g", "h", "i", "j", "k", "l", "m",
     "n", "o", "p", "q", "r", "s", "t", "u", "v", "w", "x", "y", "z",
     "A", "B", "C", "D", "E", "F", "G", "H", "I", "J", "K", "L", "M",
     "N", "O", "P", "Q", "R", "S", "T", "U", "V", "W", "X", "Y", "Z",
     "0", "1", "2", "3", "4", "5", "6", "7", "8", "9", "_"}

\* The characters the regular expression atom . does not match
LineTerminators == {"\n", "\r"}

\* (a variant of ServicePathMatch that returns match[0], the whole match)
ServicePathMatch_WholeMatch(servicePath) ==
    LET n == Len(servicePath)
        k == n - 15
    IN  IF /\ k >= 1
           /\ \A i \in 1..k : servicePath[i] \in WordChars
           /\ servicePath[k + 1] = "."
           /\ SubSeq(servicePath, k + 2, k + 11) = Str_googleapis
           /\ servicePath[k + 12] \notin LineTerminators
           /\ SubSeq(servicePath, k + 13, n) = Str_com
        THEN {servicePath}
        ELSE {}

\* The capture of /^(\w+)\.googleapis.com$/ on servicePath as a one-element
\* set, or the empty set when the expression does not match. The dot before
\* "com" is not escaped in the source: it is the atom . (any character but a
\* line terminator).
ServicePathMatch(servicePath) ==
    LET n == Len(servicePath)
        k == n - 15
    IN  IF /\ k >= 1
           /\ \A i \in 1..k : servicePath[i] \in WordChars
           /\ servicePath[k + 1] = "."
           /\ SubSeq(servicePath, k + 2, k + 11) = Str_googleapis
           /\ servicePath[k + 12] \notin LineTerminators
           /\ SubSeq(servicePath, k + 13, n) = Str_com
        THEN {SubSeq(servicePath, 1, k)}
        ELSE {}

identifyService(servicePath) ==
    LET match == ServicePathMatch(servicePath)
    IN  IF match # {} THEN CHOOSE m \in match : TRUE ELSE servicePath

(***************************************************************************)
(* Values of the collaborators                                             *)
(***************************************************************************)
Undefined == "undefined"
Null == "null"

\* What require('google-gax') can do: load the module, or throw one of these
LoadErrors == {"MODULE_NOT_FOUND", "ERR_REQUIRE"}

\* Stub objects the library's own createStub can resolve with
StubIds == {"stubA", "stubB"}

\* Errors the library's own createStub can reject with
CreateErrors == {"UNAVAILABLE"}

\* Errors a stub method of the library can throw
CallErrors == {"INVALID_ARGUMENT"}

\* Transactions the scope can carry
Txns == {"t1"}

\* The keys of Object.getPrototypeOf(stub), with the value the library puts
\* there: typeof, requestStream and responseStream of the original
StubPrototype ==
    [publish      |-> [callable |-> TRUE,  requestStream |-> FALSE, responseStream |-> FALSE],
     pull         |-> [callable |-> TRUE,  requestStream |-> FALSE, responseStream |-> FALSE],
     clientStream |-> [callable |-> TRUE,  requestStream |-> TRUE,  responseStream |-> FALSE],
     serverStream |-> [callable |-> TRUE,  requestStream |-> FALSE, responseStream |-> TRUE],
     bidiStream   |-> [callable |-> TRUE,  requestStream |-> TRUE,  responseStream |-> TRUE],
     apiVersion   |-> [callable |-> FALSE, requestStream |-> FALSE, responseStream |-> FALSE]]

PrototypeKeys == DOMAIN StubPrototype

Methods == {m \in PrototypeKeys : StubPrototype[m].callable}

\* The library's streaming methods: the integration puts no code of its own
\* around them, so one outcome of theirs is enough
Streams(m) == StubPrototype[m].requestStream \/ StubPrototype[m].responseStream

\* The arguments of a method call (one request is enough: the wrapper never
\* looks into them)
CallArgs == <<"request", "callback">>

\* What a stub method of the library can return
RetKinds == {"emitter", "noOn", "null", "undefined"}

\* Events a call handle emits
OtherEvents == {"error", "data", "end"}

\* The second argument of createStub: missing, or an options object whose
\* servicePath is undefined, null or a string
NoOptions == [arg |-> "missing", tag |-> Undefined, val |-> <<>>]

StubOptions ==
    {NoOptions,
     [arg |-> "object", tag |-> Undefined, val |-> <<>>],
     [arg |-> "object", tag |-> Null, val |-> <<>>],
     [arg |-> "object", tag |-> "string",
      val |-> Str_pubsub \o <<".">> \o Str_googleapis \o <<".">> \o Str_com],
     [arg |-> "object", tag |-> "string", val |-> Str_localhost]}

\* The GrpcClient instance createStub is called on
GrpcClient == "grpcClient"

NoSpan == 0
NoStub == "none"
NoError == "none"

\* The operations started so far: install calls, createStub calls, method calls
Ops == installs + Len(creates) + Len(calls)

\* The requests to the library so far: createStub calls and method calls
Requests == Len(creates) + Len(calls)

NoInstall == [load |-> "none", threw |-> FALSE, error |-> NoError,
              layersBefore |-> 0, layersAfter |-> 0]

(***************************************************************************)
(* GoogleCloudGrpc: constructor and install                                *)
(***************************************************************************)
\* options.optional || false
OptionalOf(given) == given = "true"

\* (a variant whose catch swallows every load failure)
InstallOutcome_Swallow(load, opt) ==
    IF load = "ok"
    THEN [patched |-> TRUE, threw |-> FALSE, error |-> NoError]
    ELSE [patched |-> FALSE, threw |-> FALSE, error |-> NoError]

\* The try/catch of install: whether createStub gets patched, and how install ends
InstallOutcome(load, opt) ==
    IF load = "ok"
    THEN [patched |-> TRUE, threw |-> FALSE, error |-> NoError]
    ELSE IF ~opt
         THEN [patched |-> FALSE, threw |-> TRUE, error |-> load]
         ELSE [patched |-> FALSE, threw |-> FALSE, error |-> NoError]

\* (a variant of fill that applies the replacement twice)
PatchCreateStub_Twice(layers) == layers + 2

\* fill(gaxModule.GrpcClient.prototype, 'createStub', ...): createStub becomes
\* the wrapper around whatever createStub was, a wrapper or not
PatchCreateStub(layers) == layers + 1

Install(load) ==
    /\ Ops < budget.ops
    /\ LET out == InstallOutcome(load, optional)
       IN  /\ installs' = installs + 1
           /\ lastInstall' = [load |-> load, threw |-> out.threw, error |-> out.error,
                              layersBefore |-> createStubLayers,
                              layersAfter |-> IF out.patched
                                              THEN PatchCreateStub(createStubLayers)
                                              ELSE createStubLayers]
           /\ createStubLayers' = IF out.patched
                                  THEN PatchCreateStub(createStubLayers)
                                  ELSE createStubLayers
    /\ UNCHANGED <<optional, creates, stubWrappers, scopeTxn, calls, spans, idVars, budget>>

(***************************************************************************)
(* fillGrpcFunction                                                        *)
(***************************************************************************)
\* stub[methodName] as it is now: the library's function object, or the
\* wrapper fill() put there, a plain arrow function with no requestStream
\* and no responseStream (undefined, falsy)
FuncObj(layers, methodName) ==
    IF layers = <<>>
    THEN StubPrototype[methodName]
    ELSE [callable |-> TRUE, requestStream |-> FALSE, responseStream |-> FALSE]

\* (a variant that looks at requestStream only)
CallType_RequestOnly(funcObj) ==
    IF ~funcObj.requestStream THEN "unary call" ELSE "client stream"

CallType(funcObj) ==
    IF ~funcObj.requestStream /\ ~funcObj.responseStream THEN "unary call"
    ELSE IF funcObj.requestStream /\ ~funcObj.responseStream THEN "client stream"
    ELSE IF ~funcObj.requestStream /\ funcObj.responseStream THEN "server stream"
    ELSE "bidi stream"

\* The layers of stub[methodName] after fillGrpcFunction
fillGrpcFunction(layers, serviceIdentifier, methodName) ==
    LET funcObj == FuncObj(layers, methodName)
    IN  IF ~funcObj.callable THEN layers
        ELSE IF CallType(funcObj) # "unary call" THEN layers
        ELSE Append(layers, [serviceIdentifier |-> serviceIdentifier,
                             callType |-> CallType(funcObj)])

(***************************************************************************)
(* _wrapCreateStub                                                         *)
(***************************************************************************)
\* args[1]?.servicePath
ServicePathOf(options) ==
    IF options.arg = "missing" THEN [tag |-> Undefined, val |-> <<>>]
    ELSE [tag |-> options.tag, val |-> options.val]

\* (a variant with servicePath === null)
NoServicePath_NullOnly(options) == ServicePathOf(options).tag = Null

\* servicePath == null || servicePath == undefined
NoServicePath(options) == ServicePathOf(options).tag \in {Null, Undefined}

\* The arguments and the receiver origCreate.apply(this, args) passes on
OrigCreateArgs(options) == options

OrigCreateThis(thisArg) == thisArg

\* (a variant that does not await the original)
Awaited_NoAwait(create) == TRUE

\* await: the patched function goes on once the original's promise is settled
Awaited(create) == create.orig # "pending"

\* What the async function settles with, given how the original settled
AsyncResult(create) ==
    [state |-> create.orig, stub |-> create.stub, error |-> create.error]

\* (a variant whose loop stops after the first key it wraps)
WrapStub_PublishOnly(stubLayers, serviceIdentifier) ==
    [m \in PrototypeKeys |->
        IF m = "publish" THEN fillGrpcFunction(stubLayers[m], serviceIdentifier, m)
        ELSE stubLayers[m]]

\* The for loop over Object.keys(Object.getPrototypeOf(stub))
WrapStub(stubLayers, serviceIdentifier) ==
    [m \in PrototypeKeys |-> fillGrpcFunction(stubLayers[m], serviceIdentifier, m)]

Pending == [state |-> "pending", stub |-> NoStub, error |-> NoError]

\* A caller calls GrpcClient.prototype.createStub: every layer runs to its
\* await, the innermost calling the library's own createStub
CallCreateStub(options) ==
    /\ Ops < budget.ops
    /\ Requests < budget.requests
    /\ creates' = Append(creates,
            [options |-> options, layers |-> createStubLayers, done |-> 0,
             thisArg |-> GrpcClient, origThis |-> OrigCreateThis(GrpcClient),
             origCalls |-> 1, origOptions |-> OrigCreateArgs(options),
             orig |-> "pending", stub |-> NoStub, error |-> NoError,
             result |-> Pending, wrappedBy |-> 0])
    /\ UNCHANGED <<optional, installs, lastInstall, createStubLayers, stubWrappers, scopeTxn,
                   calls, spans, idVars, budget>>

\* The library's own createStub settles its promise
OrigCreateSettle(c, state, stub, error) ==
    /\ c \in DOMAIN creates
    /\ creates[c].orig = "pending"
    /\ LET settled == [creates[c] EXCEPT !.orig = state, !.stub = stub, !.error = error]
       IN  creates' = [creates EXCEPT ![c] =
                IF settled.layers = 0
                THEN [settled EXCEPT !.result =
                        [state |-> state, stub |-> stub, error |-> error]]
                ELSE settled]
    /\ UNCHANGED <<optional, installs, lastInstall, createStubLayers, stubWrappers, scopeTxn,
                   calls, spans, idVars, budget>>

\* The next layer of the patched function resumes after its await (or, with no
\* servicePath, its promise follows the one it returned)
CreateStubContinue(c) ==
    /\ c \in DOMAIN creates
    /\ creates[c].done < creates[c].layers
    /\ Awaited(creates[c])
    /\ LET create == creates[c]
           wraps == /\ ~NoServicePath(create.options)
                    /\ create.orig = "fulfilled"
                    /\ create.stub \in StubIds
           done == create.done + 1
       IN  /\ stubWrappers' =
                IF wraps
                THEN [stubWrappers EXCEPT ![create.stub] =
                        WrapStub(@, identifyService(ServicePathOf(create.options).val))]
                ELSE stubWrappers
           /\ creates' = [creates EXCEPT ![c] =
                [create EXCEPT !.done = done,
                               !.wrappedBy = @ + (IF wraps THEN 1 ELSE 0),
                               !.result = IF done = create.layers
                                          THEN AsyncResult(create) ELSE @]]
    /\ UNCHANGED <<optional, installs, lastInstall, createStubLayers, scopeTxn, calls, spans, idVars, budget>>

(***************************************************************************)
(* The wrapper fillGrpcFunction puts on a unary method                     *)
(***************************************************************************)
\* (a variant that only tests ret for null and undefined)
HasOn_AnyObject(retKind) == retKind \notin {"null", "undefined"}

\* typeof ret?.on === 'function'
HasOn(retKind) == retKind = "emitter"

\* (a variant that forgets the call type)
Description_MethodOnly(callType, methodName) == <<methodName>>

\* `${callType} ${methodName}`
Description(callType, methodName) == <<callType, " ", methodName>>

\* `gcloud.grpc.${serviceIdentifier}`
Op(serviceIdentifier) == <<"gcloud.grpc.">> \o serviceIdentifier

\* The wrapper goes past the typeof test and subscribes to 'status'
Subscribes(retKind) == HasOn(retKind)

\* The wrapper calls transaction.startChild
StartsSpan(retKind, transaction) == HasOn(retKind) /\ transaction # Undefined

\* orig.apply(stub, args): the receiver the original is called with is the
\* stub fillGrpcFunction was called for, not the receiver of the wrapper (an
\* arrow function, which has no this of its own)
OrigReceiver(stub, thisArg) == stub

\* orig.apply(stub, args): the arguments the original is called with
OrigArgs(args) == args

\* (a variant that catches what the original throws)
Rethrown_Swallowed(error) == NoError

\* What the caller of the wrapper sees thrown when the original throws: no
\* try is around orig.apply
Rethrown(error) == error

\* (a variant that reads the transaction before it calls the original)
ReadTransaction_AtEntry(atEntry, atReturn) == atEntry

\* client.getScope()?.getTransaction(), evaluated after orig.apply returned
ReadTransaction(atEntry, atReturn) == atReturn

\* (a variant that returns nothing)
WrapperReturn_Nothing(ret) == [kind |-> Undefined, handle |-> 0]

\* What the wrapper returns for what the original returned
WrapperReturn(ret) == ret

\* (a variant without the test of span)
ListenerFinishes_Always(span) == TRUE

\* The 'status' listener, closed over span: whether it calls span.finish()
ListenerFinishes(span) == span # NoSpan

\* The spans the layers of one invocation start, innermost layer first; each
\* layer is one run of the arrow function of fillGrpcFunction
NewSpans(inv, layers, methodName, retKind, transaction) ==
    IF StartsSpan(retKind, transaction)
    THEN [i \in 1..Len(layers) |->
            [inv |-> inv, layer |-> i, transaction |-> transaction,
             description |-> Description(layers[i].callType, methodName),
             op |-> Op(layers[i].serviceIdentifier), finishCalls |-> 0]]
    ELSE <<>>

\* (a variant whose listeners all close over the first span ever started)
NewListeners_Shared(layers, retKind, transaction, firstSpan) ==
    IF Subscribes(retKind)
    THEN [i \in 1..Len(layers) |->
            IF StartsSpan(retKind, transaction) THEN 1 ELSE NoSpan]
    ELSE <<>>

\* The span each layer's 'status' listener closes over, innermost layer first
NewListeners(layers, retKind, transaction, firstSpan) ==
    IF Subscribes(retKind)
    THEN [i \in 1..Len(layers) |->
            IF StartsSpan(retKind, transaction) THEN firstSpan + i - 1 ELSE NoSpan]
    ELSE <<>>

\* The stubs a caller of createStub has obtained
ObtainedStubs ==
    {creates[c].result.stub : c \in {d \in DOMAIN creates : creates[d].result.state = "fulfilled"}}

\* A caller invokes stub[methodName] with receiver thisArg and arguments
\* args: the layers run synchronously, the innermost calling the library's
\* method, which returns ret (having emitted 'status' already or not) or
\* throws, and may have changed the scope's transaction meanwhile
Invoke(stub, thisArg, args, methodName, retKind, error, early, scopeAtReturn) ==
    /\ Ops < budget.ops
    /\ Requests < budget.requests
    /\ stub \in ObtainedStubs
    /\ LET layers == stubWrappers[stub][methodName]
           inv == Len(calls) + 1
           threw == error # NoError
           kind == IF threw THEN Undefined ELSE retKind
           ret == [kind |-> kind, handle |-> IF threw THEN 0 ELSE inv]
           transaction == ReadTransaction(scopeTxn, scopeAtReturn)
           started == IF threw THEN <<>>
                      ELSE NewSpans(inv, layers, methodName, kind, transaction)
           listeners == IF threw THEN <<>>
                        ELSE NewListeners(layers, kind, transaction, Len(spans) + 1)
       IN  /\ calls' = Append(calls,
                [stub |-> stub, method |-> methodName, layers |-> layers,
                 thisArg |-> thisArg, args |-> args,
                 origThis |-> IF layers = <<>> THEN thisArg
                              ELSE OrigReceiver(stub, thisArg),
                 origArgs |-> IF layers = <<>> THEN args ELSE OrigArgs(args),
                 scopeAtEntry |-> scopeTxn, scopeAtReturn |-> scopeAtReturn,
                 transaction |-> transaction, origCalls |-> 1,
                 error |-> error,
                 thrown |-> IF layers = <<>> THEN error ELSE Rethrown(error),
                 origRet |-> ret,
                 ret |-> IF layers = <<>> \/ threw THEN ret ELSE WrapperReturn(ret),
                 listeners |-> listeners,
                 earlyStatus |-> IF early THEN 1 ELSE 0,
                 statusEvents |-> 0, otherEvents |-> 0, listenerError |-> FALSE])
           /\ spans' = spans \o started
           /\ scopeTxn' = scopeAtReturn
    /\ UNCHANGED <<optional, installs, lastInstall, createStubLayers, creates, stubWrappers,
                   idVars, budget>>

\* The events the handles have emitted after they were returned
RECURSIVE EventsOf(_)
EventsOf(cs) ==
    IF cs = <<>> THEN 0
    ELSE Head(cs).statusEvents + Head(cs).otherEvents + EventsOf(Tail(cs))

Events == EventsOf(calls)

\* (a variant subscribed to every event)
Listens_Any(event) == TRUE

\* ret.on('status', ...): the one event the wrapper's listener is called for
Listens(event) == event = "status"

\* The handle of invocation inv emits an event after the method returned it.
\* An event on a handle that the integration subscribed no listener to runs
\* no code of the integration and changes nothing: it is left out.
Emit(inv, event) ==
    /\ inv \in DOMAIN calls
    /\ calls[inv].error = NoError
    /\ calls[inv].origRet.kind = "emitter"
    /\ calls[inv].listeners # <<>>
    /\ Events < budget.events
    /\ IF Listens(event)
       THEN LET ls == calls[inv].listeners
                finishing == {ls[i] : i \in {j \in DOMAIN ls : ListenerFinishes(ls[j])}}
            IN  /\ calls' = [calls EXCEPT ![inv].statusEvents =
                                                @ + (IF event = "status" THEN 1 ELSE 0),
                                          ![inv].otherEvents =
                                                @ + (IF event = "status" THEN 0 ELSE 1),
                                          ![inv].listenerError =
                                                @ \/ NoSpan \in finishing]
                /\ spans' = [k \in DOMAIN spans |->
                                IF k \in finishing
                                THEN [spans[k] EXCEPT !.finishCalls = @ + 1]
                                ELSE spans[k]]
       ELSE /\ calls' = [calls EXCEPT ![inv].otherEvents = @ + 1]
            /\ spans' = spans
    /\ UNCHANGED <<optional, installs, lastInstall, createStubLayers, creates, stubWrappers,
                   scopeTxn, idVars, budget>>

\* The application (or the tracing client) changes the scope's transaction
SetTransaction(t) ==
    /\ t # scopeTxn
    /\ scopeTxn' = t
    /\ UNCHANGED <<optional, installs, lastInstall, createStubLayers, creates, stubWrappers,
                   calls, spans, idVars, budget>>

(***************************************************************************)
(* The integration in its process                                          *)
(***************************************************************************)
Init ==
    /\ \E given \in {Undefined, "false", "true"} : optional = OptionalOf(given)
    /\ installs = 0
    /\ lastInstall = NoInstall
    /\ createStubLayers = 0
    /\ creates = <<>>
    /\ stubWrappers = [s \in StubIds |-> [m \in PrototypeKeys |-> <<>>]]
    /\ scopeTxn = Undefined
    /\ calls = <<>>
    /\ spans = <<>>
    /\ budget = [ops |-> MaxOps, requests |-> MaxRequests, events |-> MaxEvents]
    /\ idPc = "off"
    /\ idPath = <<>>
    /\ idResult = <<>>

\* The methods called in the runs that follow one call at a time, with every
\* outcome: one unary method and the streams. pull differs from publish in
\* its name only; the runs with several calls at once call both.
SingleCallMethods == Methods \ {"pull"}

Next ==
    \/ \E load \in {"ok"} \cup LoadErrors : Install(load)
    \/ \E options \in StubOptions : CallCreateStub(options)
    \/ \E c \in 1..budget.requests, s \in StubIds : OrigCreateSettle(c, "fulfilled", s, NoError)
    \/ \E c \in 1..budget.requests, e \in CreateErrors : OrigCreateSettle(c, "rejected", NoStub, e)
    \/ \E c \in 1..budget.requests : CreateStubContinue(c)
    \/ \E s \in StubIds, m \in SingleCallMethods, k \in RetKinds, early \in BOOLEAN :
            /\ early => k = "emitter"
            /\ Streams(m) => k = "emitter" /\ ~early
            /\ Invoke(s, s, CallArgs, m, k, NoError, early, scopeTxn)
    \/ \E s \in StubIds, m \in SingleCallMethods \ {n \in Methods : Streams(n)}, e \in CallErrors :
            Invoke(s, s, CallArgs, m, Undefined, e, FALSE, scopeTxn)
    \/ \E i \in 1..budget.requests : Emit(i, "status")
    \/ \E i \in 1..budget.requests, ev \in OtherEvents : Emit(i, ev)
    \/ \E t \in Txns \cup {Undefined} : SetTransaction(t)

Spec == Init /\ [][Next]_vars

(***************************************************************************)
(* Several calls of wrapped unary methods at once: the integration is      *)
(* installed with the library present, stubs are created for a service     *)
(* path, and the unary methods are called with every receiver, the         *)
(* original changing the scope's transaction or not                        *)
(***************************************************************************)
\* The library's unary methods
UnaryMethods == {m \in Methods : ~Streams(m)}

\* The receivers a caller can call stub[methodName] with: the stub, as in
\* stub.publish(...), or none, as in a call of the detached function
Receivers(stub) == {stub, Undefined}

PubsubOptions ==
    [arg |-> "object", tag |-> "string",
     val |-> Str_pubsub \o <<".">> \o Str_googleapis \o <<".">> \o Str_com]

InitCalls ==
    /\ optional = FALSE
    /\ installs = 0
    /\ lastInstall = NoInstall
    /\ createStubLayers = 0
    /\ creates = <<>>
    /\ stubWrappers = [s \in StubIds |-> [m \in PrototypeKeys |-> <<>>]]
    /\ scopeTxn = Undefined
    /\ calls = <<>>
    /\ spans = <<>>
    /\ budget = [ops |-> MaxCallOps, requests |-> MaxCallRequests, events |-> MaxCallEvents]
    /\ idPc = "off"
    /\ idPath = <<>>
    /\ idResult = <<>>

NextCalls ==
    \/ Install("ok")
    \/ CallCreateStub(PubsubOptions)
    \/ \E c \in 1..budget.requests, s \in StubIds : OrigCreateSettle(c, "fulfilled", s, NoError)
    \/ \E c \in 1..budget.requests : CreateStubContinue(c)
    \/ \E s \in StubIds, m \in UnaryMethods, after \in Txns \cup {Undefined} :
            \E r \in Receivers(s) : Invoke(s, r, CallArgs, m, "emitter", NoError, FALSE, after)
    \/ \E i \in 1..budget.requests : Emit(i, "status")
    \/ \E t \in Txns \cup {Undefined} : SetTransaction(t)

SpecCalls == InitCalls /\ [][NextCalls]_vars

(***************************************************************************)
(* identifyService on its own: every service path of the input set         *)
(***************************************************************************)
\* Characters a service path is built from here: word characters, and
\* characters that are none
PathChars == {"p", "_", "7", "-", "."}

RECURSIVE SeqsUpTo(_, _)
SeqsUpTo(S, n) ==
    IF n = 0 THEN {<<>>}
    ELSE LET shorter == SeqsUpTo(S, n - 1)
         IN  shorter \cup {Append(q, x) : q \in shorter, x \in S}

PathEndings ==
    {<<>>,
     <<".">> \o Str_googleapis \o <<".">> \o Str_com,
     <<".">> \o Str_googleapis \o <<"X">> \o Str_com,
     <<".">> \o Str_googleapis \o <<"-">> \o Str_com,
     <<".">> \o Str_googleapis \o <<"\n">> \o Str_com,
     <<".">> \o Str_googleapis \o <<".">> \o Str_com \o <<".">>,
     <<".">> \o Str_googleapis \o <<".">> \o Str_com \o <<"\n">>,
     <<".">> \o Str_googleapis \o <<".">> \o <<"c", "o">>,
     <<"-">> \o Str_googleapis \o <<".">> \o Str_com,
     <<".">> \o Str_localhost \o <<".">> \o Str_com}

ServicePaths == {b \o e : b \in SeqsUpTo(PathChars, MaxPrefixLen), e \in PathEndings}

InitIdentify ==
    /\ optional = FALSE
    /\ installs = 0
    /\ lastInstall = NoInstall
    /\ createStubLayers = 0
    /\ creates = <<>>
    /\ stubWrappers = [s \in StubIds |-> [m \in PrototypeKeys |-> <<>>]]
    /\ scopeTxn = Undefined
    /\ calls = <<>>
    /\ spans = <<>>
    /\ budget = [ops |-> MaxOps, requests |-> MaxRequests, events |-> MaxEvents]
    /\ idPc = "call"
    /\ idPath \in ServicePaths
    /\ idResult = <<>>

CallIdentifyService ==
    /\ idPc = "call"
    /\ idResult' = identifyService(idPath)
    /\ idPc' = "done"
    /\ UNCHANGED <<idPath, mainVars>>

NextIdentify == CallIdentifyService

SpecIdentify == InitIdentify /\ [][NextIdentify]_vars

(***************************************************************************)
(* Properties of identifyService                                           *)
(***************************************************************************)
\* The pattern ^\w+\.googleapis\.com$ as the specification writes it, with
\* the dot before "com" a literal dot
MatchesGoogleapis(servicePath) ==
    LET n == Len(servicePath)
        k == n - 15
    IN  /\ k >= 1
        /\ \A i \in 1..k : servicePath[i] \in WordChars
        /\ SubSeq(servicePath, k + 1, n) = <<".">> \o Str_googleapis \o <<".">> \o Str_com

\* C6: for every service path that does not match ^\w+\.googleapis\.com$,
\* identifyService returns the path unchanged.
C6_UnchangedWhenNoMatch ==
    (idPc = "done" /\ ~MatchesGoogleapis(idPath)) => idResult = idPath

\* C7: for every service path that matches ^\w+\.googleapis\.com$,
\* identifyService returns exactly the word-character prefix before
\* ".googleapis.com".
C7_PrefixWhenMatch ==
    (idPc = "done" /\ MatchesGoogleapis(idPath)) =>
        /\ idResult \o <<".">> \o Str_googleapis \o <<".">> \o Str_com = idPath
        /\ \A i \in DOMAIN idResult : idResult[i] \in WordChars

\* identifyService has returned the prefix of a matching path
C7_Witness ==
    /\ idPc = "done"
    /\ idPath = <<"p", "_">> \o <<".">> \o Str_googleapis \o <<".">> \o Str_com
    /\ idResult = <<"p", "_">>


(***************************************************************************)
(* Properties of the wrapped methods                                       *)
(***************************************************************************)
\* The spans started for invocation inv by its layer-th wrapper
SpansOf(inv, layer) ==
    {k \in DOMAIN spans : spans[k].inv = inv /\ spans[k].layer = layer}

\* The spans started for invocation inv
SpansOfCall(inv) == {k \in DOMAIN spans : spans[k].inv = inv}

\* Invocation inv ran at least one wrapper put there by fillGrpcFunction
Wrapped(inv) == calls[inv].layers # <<>>

\* C1: a span created by an invocation of a wrapped unary method is finished
\* exactly once: whatever events the handle emits afterwards (more than one
\* 'status' included), finish() is never called more than once on the span,
\* and it has been called once after the first 'status' event.
C1_FinishedExactlyOnce ==
    \A k \in DOMAIN spans :
        /\ spans[k].finishCalls <= 1
        /\ calls[spans[k].inv].statusEvents >= 1 => spans[k].finishCalls = 1

C3_NoTransactionNoSpan ==
    \A i \in DOMAIN calls :
        (Wrapped(i) /\ calls[i].transaction = Undefined) =>
            /\ SpansOfCall(i) = {}
            /\ calls[i].origCalls = 1
            /\ calls[i].origRet.kind = "emitter" =>
                    /\ Len(calls[i].listeners) = Len(calls[i].layers)
                    /\ ~calls[i].listenerError

\* publish was invoked with no transaction, a transaction was set afterwards,
\* and the handle has emitted 'status': still no span
C3_Witness ==
    \E i \in DOMAIN calls :
        /\ Wrapped(i)
        /\ calls[i].transaction = Undefined
        /\ calls[i].listeners # <<>>
        /\ calls[i].statusEvents >= 1
        /\ scopeTxn = "t1"
        /\ spans = <<>>

\* C4: after createStub, a property of the stub carries a wrapper only if it
\* is callable with requestStream = false and responseStream = false; every
\* method with requestStream or responseStream true is still the library's
\* own function, and invoking it creates no span, whatever the transaction.
C4_StreamsUntouched ==
    /\ \A s \in StubIds, m \in PrototypeKeys :
            stubWrappers[s][m] # <<>> =>
                /\ StubPrototype[m].callable
                /\ ~StubPrototype[m].requestStream
                /\ ~StubPrototype[m].responseStream
    /\ \A i \in DOMAIN calls :
            (\/ StubPrototype[calls[i].method].requestStream
             \/ StubPrototype[calls[i].method].responseStream) =>
                /\ ~Wrapped(i)
                /\ SpansOfCall(i) = {}
                /\ calls[i].listeners = <<>>
                /\ calls[i].ret = calls[i].origRet

\* publish of a stub is wrapped, and a streaming method of the same stub was
\* invoked under a transaction
C4_Witness ==
    \E i \in DOMAIN calls :
        /\ calls[i].method = "bidiStream"
        /\ calls[i].transaction = "t1"
        /\ stubWrappers[calls[i].stub]["publish"] # <<>>
        /\ stubWrappers[calls[i].stub]["bidiStream"] = <<>>

\* C10: every invocation of a wrapped unary method returns, in every branch
\* (handle without 'on', no transaction, transaction active), the very
\* handle the original returned, in the step of the call itself: before any
\* 'status' event of that handle.
C10_ReturnsOriginalHandle ==
    \A i \in DOMAIN calls :
        (Wrapped(i) /\ calls[i].error = NoError) =>
            /\ calls[i].ret = calls[i].origRet
            /\ calls[i].ret.handle = i

\* An invocation of a wrapped publish under a transaction has returned the
\* emitter of the original, and no 'status' has fired yet
C10_Witness ==
    \E i \in DOMAIN calls :
        /\ Wrapped(i)
        /\ calls[i].origRet.kind = "emitter"
        /\ calls[i].transaction = "t1"
        /\ calls[i].statusEvents = 0
        /\ calls[i].earlyStatus = 0
        /\ calls[i].ret = [kind |-> "emitter", handle |-> i]
        /\ Cardinality(SpansOfCall(i)) = 1

(***************************************************************************)
(* Properties of install and of the patched createStub                     *)
(***************************************************************************)
\* Call c went through the patched createStub
Patched(c) == creates[c].layers >= 1

\* Call c has delivered its result to the caller
Delivered(c) == creates[c].done = creates[c].layers

\* C5: when the patched createStub is called with a second argument that is
\* missing or whose servicePath is undefined or null, the original is called
\* exactly once with the same receiver and arguments, its result is what the
\* caller obtains, and the call wraps no method of the stub.
C5_NoServicePathPassesThrough ==
    \A c \in DOMAIN creates :
        (Patched(c) /\ creates[c].options.tag \in {Undefined, Null}) =>
            /\ creates[c].origCalls = 1
            /\ creates[c].origThis = creates[c].thisArg
            /\ creates[c].origOptions = creates[c].options
            /\ creates[c].wrappedBy = 0
            /\ Delivered(c) =>
                    creates[c].result = [state |-> creates[c].orig,
                                         stub |-> creates[c].stub,
                                         error |-> creates[c].error]

\* The patched createStub was called without options and has resolved with
\* the stub of the original, publish of which is not wrapped
C5_Witness ==
    \E c \in DOMAIN creates :
        /\ Patched(c)
        /\ creates[c].options = NoOptions
        /\ Delivered(c)
        /\ creates[c].result.state = "fulfilled"
        /\ creates[c].result.stub = "stubA"
        /\ stubWrappers["stubA"]["publish"] = <<>>

\* C8: when require('google-gax') fails during install: with optional = true
\* install returns normally, createStub is not patched, and as long as no
\* install has patched it no stub is wrapped; with optional = false install
\* throws the same load failure.
C8_LoadFailure ==
    /\ lastInstall.load \in LoadErrors =>
            /\ lastInstall.layersAfter = lastInstall.layersBefore
            /\ optional => (~lastInstall.threw /\ lastInstall.error = NoError)
            /\ ~optional => (lastInstall.threw /\ lastInstall.error = lastInstall.load)
    /\ createStubLayers = 0 =>
            \A s \in StubIds, m \in PrototypeKeys : stubWrappers[s][m] = <<>>

\* An optional integration was installed with the library missing; a stub was
\* then created for a service path and publish invoked under a transaction
C8_Witness ==
    /\ optional
    /\ lastInstall.load = "MODULE_NOT_FOUND"
    /\ ~lastInstall.threw
    /\ createStubLayers = 0
    /\ \E c \in DOMAIN creates :
        /\ creates[c].options.tag = "string"
        /\ creates[c].result.state = "fulfilled"
    /\ \E i \in DOMAIN calls :
        /\ calls[i].method = "publish"
        /\ calls[i].transaction = "t1"
        /\ calls[i].origRet.kind = "emitter"
    /\ spans = <<>>

\* C9: the patched createStub never resolves before the original has
\* resolved, and when the original rejects the patched function rejects with
\* the same error value and no method is wrapped.
C9_FollowsOriginal ==
    \A c \in DOMAIN creates :
        Patched(c) =>
            /\ creates[c].done >= 1 => creates[c].orig # "pending"
            /\ creates[c].result.state # "pending" => creates[c].orig # "pending"
            /\ (creates[c].orig = "rejected" /\ Delivered(c)) =>
                    /\ creates[c].result.state = "rejected"
                    /\ creates[c].result.error = creates[c].error
                    /\ creates[c].result.stub = NoStub
                    /\ creates[c].wrappedBy = 0

\* The patched createStub, called with a service path, has rejected with the
\* error of the original
C9_Witness ==
    \E c \in DOMAIN creates :
        /\ Patched(c)
        /\ creates[c].options.tag = "string"
        /\ creates[c].orig = "rejected"
        /\ Delivered(c)
        /\ creates[c].result = [state |-> "rejected", stub |-> NoStub,
                                error |-> "UNAVAILABLE"]

(***************************************************************************)
(* Properties of repeated wrapping                                         *)
(***************************************************************************)
\* C11: with the integration installed once, after any sequence of calls of
\* the patched createStub (the original resolving with a stub it resolved
\* with before included), every stub method carries at most one wrapper of
\* fillGrpcFunction, so that one invocation of it calls the original once and
\* starts at most one span.
C11_AtMostOneLayer ==
    installs <= 1 =>
        /\ \A s \in StubIds, m \in PrototypeKeys : Len(stubWrappers[s][m]) <= 1
        /\ \A i \in DOMAIN calls :
                /\ calls[i].origCalls = 1
                /\ Cardinality(SpansOfCall(i)) <= 1

(***************************************************************************)
(* Properties of the 'status' listener                                     *)
(***************************************************************************)
\* C12: if a wrapped unary method is invoked under an active transaction
\* and its handle emits 'status', the span started for that invocation is
\* finished, at whatever moment the handle emits 'status' relative to the
\* return of the original method (while the original still runs included).
\* The listener runs inside emit, and nothing else finishes a span: a span
\* whose handle has emitted 'status' is finished in every state.
C12_StatusFinishesSpan ==
    \A k \in DOMAIN spans :
        calls[spans[k].inv].earlyStatus + calls[spans[k].inv].statusEvents >= 1 =>
            spans[k].finishCalls >= 1

\* C13: a span is never finished before a 'status' event of its handle: in
\* every state finish() has been called on a span at most as often as the
\* handle of its invocation has delivered 'status', so that a finished span
\* has had its 'status', and a handle that has emitted only other events
\* (error, data, end), or none, leaves the span open.
C13_NotFinishedBeforeStatus ==
    \A k \in DOMAIN spans :
        /\ spans[k].finishCalls <= calls[spans[k].inv].statusEvents
        /\ calls[spans[k].inv].statusEvents = 0 => spans[k].finishCalls = 0

\* The handle of an invocation with a span has emitted two events other
\* than 'status' and no 'status': the span is open
C13_Witness ==
    \E k \in DOMAIN spans :
        /\ calls[spans[k].inv].otherEvents = 2
        /\ calls[spans[k].inv].statusEvents = 0
        /\ spans[k].finishCalls = 0

(***************************************************************************)
(* Properties of several invocations at once                               *)
(***************************************************************************)
\* The spans the 'status' listeners of invocation inv close over
ListenedSpans(inv) ==
    {calls[inv].listeners[l] : l \in DOMAIN calls[inv].listeners} \ {NoSpan}

\* C14: with several invocations of wrapped unary methods outstanding (same
\* or different methods, same or different stubs), each invocation made
\* under a transaction has spans of its own, which the listeners of no other
\* invocation close over, and finish() has been called on a span exactly as
\* often as the handle of its own invocation has emitted 'status': a
\* 'status' of another handle does not finish it, in whatever order the
\* invocations and the 'status' events come.
C14_OwnSpanPerInvocation ==
    /\ \A i \in DOMAIN calls :
            /\ (Wrapped(i) /\ calls[i].transaction # Undefined) => SpansOfCall(i) # {}
            /\ ListenedSpans(i) = SpansOfCall(i)
    /\ \A i, j \in DOMAIN calls : i # j => ListenedSpans(i) \cap ListenedSpans(j) = {}
    /\ \A k \in DOMAIN spans : spans[k].finishCalls = calls[spans[k].inv].statusEvents

\* Two invocations on different stubs are outstanding, each with its span;
\* the handle of the later one has emitted 'status': its span is finished,
\* the span of the earlier one is open
C14_Witness ==
    \E i, j \in DOMAIN calls :
        /\ i < j
        /\ calls[i].stub # calls[j].stub
        /\ calls[i].statusEvents = 0
        /\ calls[j].statusEvents = 1
        /\ \E k \in SpansOfCall(i) : spans[k].finishCalls = 0
        /\ \E k \in SpansOfCall(j) : spans[k].finishCalls = 1

(***************************************************************************)
(* Properties of the wrapper when the original gives no handle             *)
(***************************************************************************)
\* C15: when the original method returns a value with no callable 'on'
\* (null and undefined included), the wrapper returns that value unmodified,
\* starts no span, subscribes no listener and throws nothing, with or
\* without a transaction in the scope.
C15_NoOnPassesThrough ==
    \A i \in DOMAIN calls :
        (/\ Wrapped(i)
         /\ calls[i].error = NoError
         /\ calls[i].origRet.kind \in {"noOn", "null", "undefined"}) =>
            /\ calls[i].ret = calls[i].origRet
            /\ SpansOfCall(i) = {}
            /\ calls[i].listeners = <<>>
            /\ calls[i].thrown = NoError

\* A wrapped publish was invoked under a transaction and the original
\* returned null: the caller has null, and no span exists
C15_Witness ==
    \E i \in DOMAIN calls :
        /\ Wrapped(i)
        /\ calls[i].transaction = "t1"
        /\ calls[i].origRet.kind = "null"
        /\ calls[i].ret.kind = "null"
        /\ calls[i].thrown = NoError
        /\ spans = <<>>

\* C16: when the original method of a wrapped unary method throws, the
\* caller of the wrapper sees the same error thrown, the original was called
\* once, and no span is started and no listener subscribed for the
\* invocation: a failed call leaves no span open.
C16_ThrowPropagates ==
    \A i \in DOMAIN calls :
        (Wrapped(i) /\ calls[i].error # NoError) =>
            /\ calls[i].thrown = calls[i].error
            /\ calls[i].origCalls = 1
            /\ SpansOfCall(i) = {}
            /\ calls[i].listeners = <<>>

\* A wrapped publish was invoked under a transaction and the original threw
\* INVALID_ARGUMENT: the caller has seen that error, and no span exists
C16_Witness ==
    \E i \in DOMAIN calls :
        /\ Wrapped(i)
        /\ calls[i].method = "publish"
        /\ calls[i].transaction = "t1"
        /\ calls[i].error = "INVALID_ARGUMENT"
        /\ calls[i].thrown = "INVALID_ARGUMENT"
        /\ spans = <<>>

(***************************************************************************)
(* Properties of the stub the patched createStub resolves with             *)
(***************************************************************************)
\* C17: when the patched createStub resolves with a stub for a call that
\* carried a servicePath, every key of the stub's prototype whose value is
\* callable and unary is wrapped on that stub already; and methods are only
\* wrapped by a call whose original createStub has resolved, on the stub it
\* resolved with.
C17_WrappedWhenResolved ==
    /\ \A c \in DOMAIN creates :
            /\ (/\ Patched(c)
                /\ creates[c].options.tag = "string"
                /\ creates[c].result.state = "fulfilled") =>
                    \A m \in PrototypeKeys :
                        (/\ StubPrototype[m].callable
                         /\ ~StubPrototype[m].requestStream
                         /\ ~StubPrototype[m].responseStream) =>
                            stubWrappers[creates[c].result.stub][m] # <<>>
            /\ creates[c].wrappedBy >= 1 => creates[c].orig = "fulfilled"
    /\ \A s \in StubIds, m \in PrototypeKeys :
            stubWrappers[s][m] # <<>> =>
                \E c \in DOMAIN creates :
                    /\ creates[c].orig = "fulfilled"
                    /\ creates[c].stub = s
                    /\ creates[c].wrappedBy >= 1

\* The patched createStub, called with a service path, has resolved with
\* stubB: publish and pull of stubB are wrapped once, nothing of stubA is
C17_Witness ==
    \E c \in DOMAIN creates :
        /\ Patched(c)
        /\ creates[c].options.tag = "string"
        /\ creates[c].result = [state |-> "fulfilled", stub |-> "stubB", error |-> NoError]
        /\ Len(stubWrappers["stubB"]["publish"]) = 1
        /\ Len(stubWrappers["stubB"]["pull"]) = 1
        /\ stubWrappers["stubB"]["serverStream"] = <<>>
        /\ stubWrappers["stubA"]["publish"] = <<>>

(***************************************************************************)
(* Properties of the transaction a span belongs to                         *)
(***************************************************************************)
\* What C18 says of one step, for every invocation made before the step and,
\* after the step, for every invocation made so far
C18_Step ==
    /\ \A i \in DOMAIN calls' :
            /\ (Wrapped(i)' /\ calls'[i].origRet.kind = "emitter") =>
                    (SpansOfCall(i)' # {} <=> calls'[i].scopeAtReturn # Undefined)
            /\ \A k \in SpansOfCall(i)' : spans'[k].transaction = calls'[i].scopeAtReturn
    /\ \A i \in DOMAIN calls :
            /\ SpansOfCall(i)' = SpansOfCall(i)
            /\ \A k \in SpansOfCall(i) : spans'[k].transaction = spans[k].transaction
            /\ calls'[i].statusEvents = calls[i].statusEvents + 1 =>
                    \A k \in SpansOfCall(i) : spans'[k].finishCalls = spans[k].finishCalls + 1

\* C18: the transaction of a span is the one current in the scope when the
\* wrapped method is invoked, read once, after the original has returned;
\* no step after the invocation, a change or removal of the scope's
\* transaction included, creates a span for the invocation or moves its span
\* to another transaction, and a 'status' after such a change still finishes
\* the span started at invocation.
C18_TransactionAtInvocation == [][C18_Step]_vars

\* publish was invoked with no transaction in the scope, the original set
\* one before it returned, the transaction was removed from the scope
\* afterwards, and 'status' has fired: the span belongs to the transaction
\* of the invocation and is finished
C18_Witness ==
    \E k \in DOMAIN spans :
        /\ calls[spans[k].inv].scopeAtEntry = Undefined
        /\ calls[spans[k].inv].scopeAtReturn = "t1"
        /\ scopeTxn = Undefined
        /\ calls[spans[k].inv].statusEvents = 1
        /\ spans[k].transaction = "t1"
        /\ spans[k].finishCalls = 1

(***************************************************************************)
(* Properties of the call of the original method                           *)
(***************************************************************************)
\* C19: a wrapped unary method invokes the original method exactly once per
\* invocation, with the arguments and with the receiver the wrapper itself
\* was called with.
C19_SameArgsAndReceiver ==
    \A i \in DOMAIN calls :
        Wrapped(i) =>
            /\ calls[i].origCalls = 1
            /\ calls[i].origArgs = calls[i].args
            /\ calls[i].origThis = calls[i].thisArg

(***************************************************************************)
(* Properties of repeated installation                                     *)
(***************************************************************************)
\* C20 as the specification states it: after any sequence of install calls
\* the library's createStub is the original wrapped by at most one layer of
\* the stub-creation wrapper.
C20_AtMostOnePatch == createStubLayers <= 1

\* What the code does in one step: an install call that loads the library
\* adds one layer, and nothing else changes the layers of createStub
C20_Step ==
    /\ createStubLayers' =
            createStubLayers
                + (IF installs' = installs + 1 /\ lastInstall'.load = "ok" THEN 1 ELSE 0)
    /\ createStubLayers' <= installs'
    /\ installs' <= 1 => createStubLayers' <= 1

\* C20, amended: install does not guard against a second registration; every
\* install call that loads the library wraps createStub once more, so that
\* createStub carries as many layers as install calls have loaded the
\* library, and at most one layer as long as install was called at most once.
C20_OnePatchPerInstall == [][C20_Step]_vars

\* install was called twice with the library present: createStub carries
\* two layers, a createStub call has gone through both, and publish of the
\* stub it resolved with carries two wrappers
C20_Witness ==
    /\ installs = 2
    /\ createStubLayers = 2
    /\ \E c \in DOMAIN creates :
        /\ creates[c].layers = 2
        /\ creates[c].result.state = "fulfilled"
        /\ Len(stubWrappers[creates[c].result.stub]["publish"]) = 2

====
